---- MODULE Spec2Model ----
(***************************************************************************)
(* Model of the MeSH conditions pipeline:                                  *)
(*   MeSHParser.py          XML descriptors -> term-keyed JSON mapping     *)
(*   JSONMeSHAliasParser.py JSON mapping    -> (alias, term) CSV rows      *)
(* Strings are sequences of ASCII code points, so that str.lower() and the *)
(* code[0] == "C" test are computed on characters.                         *)
(***************************************************************************)
EXTENDS Integers, Sequences, FiniteSets, TLC

VARIABLES root, pos, parsedCondition, data, file, stdout, pc,
          loaded, ti, ai, row, sink, pc2

vars == <<root, pos, parsedCondition, data, file, stdout, pc,
          loaded, ti, ai, row, sink, pc2>>

condenserVars == <<root, pos, parsedCondition, data, file, stdout, pc>>

expanderVars == <<loaded, ti, ai, row, sink, pc2>>

(***************************************************************************)
(* Bounds                                                                  *)
(***************************************************************************)
MaxEntries == 3
MaxRecords == 2

(***************************************************************************)
(* Python values: None / str                                               *)
(***************************************************************************)
None == [isNone |-> TRUE, chars |-> <<>>]
Str(s) == [isNone |-> FALSE, chars |-> s]

\* code point of "C", the literal of `code[0] == "C"`
MarkerC == 67

LowerChar(c) == IF c >= 65 /\ c <= 90 THEN c + 32 ELSE c

\* str.lower() on ASCII text
Lower(s) == [i \in 1..Len(s) |-> LowerChar(s[i])]

(***************************************************************************)
(* xml.etree.ElementTree elements                                          *)
(***************************************************************************)
Element(tag, text, children) ==
    [isNone |-> FALSE, tag |-> tag, text |-> text, children |-> children]

NoElement == [isNone |-> TRUE, tag |-> "", text |-> None, children |-> <<>>]

\* Element.findall(tag): the direct children with that tag, in document order
findall(e, tag) == SelectSeq(e.children, LAMBDA c : c.tag = tag)

\* Element.find(tag): the first such child, or None
find(e, tag) == IF findall(e, tag) = <<>> THEN NoElement ELSE findall(e, tag)[1]

(***************************************************************************)
(* MeSHParser.isCondition                                                  *)
(* "True" / "False", or "Raise" when code[0] is evaluated on a value that  *)
(* is not subscriptable (outside the try block).                           *)
(***************************************************************************)
\* a variant whose marker test ignores case
isConditionAnyCase(descriptor) ==
    LET tnl == find(descriptor, "TreeNumberList")
        tn  == IF tnl.isNone THEN NoElement ELSE find(tnl, "TreeNumber")
    IN  IF tnl.isNone \/ tn.isNone THEN "False"
        ELSE IF tn.text.isNone \/ tn.text.chars = <<>> THEN "Raise"
        ELSE IF LowerChar(tn.text.chars[1]) = LowerChar(MarkerC) THEN "True" ELSE "False"

isCondition(descriptor) ==
    LET tnl == find(descriptor, "TreeNumberList")
    IN  IF tnl.isNone THEN "False"
        ELSE LET tn == find(tnl, "TreeNumber")
             IN  IF tn.isNone THEN "False"
                 ELSE LET code == tn.text
                      IN  IF code.isNone \/ code.chars = <<>> THEN "Raise"
                          ELSE IF code.chars[1] = MarkerC THEN "True" ELSE "False"

\* what isCondition prints: its except branch reports the code it could not read
isConditionOutput(descriptor) ==
    LET tnl == find(descriptor, "TreeNumberList")
        tn  == IF tnl.isNone THEN NoElement ELSE find(tnl, "TreeNumber")
    IN  IF tnl.isNone \/ tn.isNone
        THEN <<"Error: could not retrieve MeSH code of descriptor">>
        ELSE <<>>

(***************************************************************************)
(* MeSHParser.parseCondition                                               *)
(***************************************************************************)
Failed(which) ==
    [ok |-> FALSE, error |-> which, term |-> <<>>,
     rep |-> [mesh_code |-> None, entry_terms |-> <<>>]]

\* the diagnostic printed before exit()
ErrorMessage(which) ==
    CASE which = "term" -> "Error: could not retrieve MeSH term of condition"
      [] which = "code" -> "Error: could not retrieve MeSH code of condition"
      [] OTHER          -> "Error: could not retrieve brand name data of drug"

Returned(term, code, entryTerms) ==
    [ok |-> TRUE, error |-> "", term |-> term,
     rep |-> [mesh_code |-> code, entry_terms |-> entryTerms]]

\* the inner loop: for termX in termList.findall('Term')
RECURSIVE appendTermNames(_, _)
appendTermNames(terms, entryTerms) ==
    IF terms = <<>> THEN [ok |-> TRUE, names |-> entryTerms]
    ELSE LET s == find(Head(terms), "String")
         IN  IF s.isNone \/ s.text.isNone THEN [ok |-> FALSE, names |-> entryTerms]
             ELSE appendTermNames(Tail(terms),
                                  Append(entryTerms, Lower(s.text.chars)))

\* the outer loop: for concept in conceptList.findall('Concept')
RECURSIVE appendConcepts(_, _)
appendConcepts(concepts, entryTerms) ==
    IF concepts = <<>> THEN [ok |-> TRUE, names |-> entryTerms]
    ELSE LET termList == find(Head(concepts), "TermList")
         IN  IF termList.isNone THEN [ok |-> FALSE, names |-> entryTerms]
             ELSE LET r == appendTermNames(findall(termList, "Term"), entryTerms)
                  IN  IF r.ok THEN appendConcepts(Tail(concepts), r.names) ELSE r

parseEntryTerms(conditionData) ==
    LET conceptList == find(conditionData, "ConceptList")
    IN  IF conceptList.isNone THEN [ok |-> FALSE, names |-> <<>>]
        ELSE appendConcepts(findall(conceptList, "Concept"), <<>>)

parseTerm(conditionData) ==
    LET dn == find(conditionData, "DescriptorName")
        s  == IF dn.isNone THEN NoElement ELSE find(dn, "String")
    IN  IF dn.isNone \/ s.isNone \/ s.text.isNone
        THEN [ok |-> FALSE, term |-> <<>>]
        ELSE [ok |-> TRUE, term |-> Lower(s.text.chars)]

parseCode(conditionData) ==
    LET tnl == find(conditionData, "TreeNumberList")
        tn  == IF tnl.isNone THEN NoElement ELSE find(tnl, "TreeNumber")
    IN  IF tnl.isNone \/ tn.isNone
        THEN [ok |-> FALSE, code |-> None]
        ELSE [ok |-> TRUE, code |-> tn.text]

\* a variant that keeps the aliases read so far when the alias path breaks
parseConditionSkipAliases(conditionData) ==
    LET t == parseTerm(conditionData)
        c == parseCode(conditionData)
        a == parseEntryTerms(conditionData)
    IN  IF ~t.ok THEN Failed("term")
        ELSE IF ~c.ok THEN Failed("code")
        ELSE Returned(t.term, c.code, a.names)

\* a variant that takes a missing name as the empty string
parseConditionEmptyName(conditionData) ==
    LET t == parseTerm(conditionData)
        c == parseCode(conditionData)
        a == parseEntryTerms(conditionData)
    IN  IF ~c.ok THEN Failed("code")
        ELSE IF ~a.ok THEN Failed("entry_terms")
        ELSE Returned(t.term, c.code, a.names)

\* a variant that lowercases the code as well and keeps one copy of an alias
RECURSIVE Dedup(_)
Dedup(s) ==
    IF s = <<>> THEN <<>>
    ELSE LET front == Dedup(SubSeq(s, 1, Len(s) - 1))
             last  == s[Len(s)]
         IN  IF \E i \in 1..Len(front) : front[i] = last
             THEN front ELSE Append(front, last)

parseConditionNormalising(conditionData) ==
    LET t == parseTerm(conditionData)
        c == parseCode(conditionData)
        a == parseEntryTerms(conditionData)
    IN  IF ~t.ok THEN Failed("term")
        ELSE IF ~c.ok THEN Failed("code")
        ELSE IF ~a.ok THEN Failed("entry_terms")
        ELSE Returned(t.term,
                      IF c.code.isNone THEN None ELSE Str(Lower(c.code.chars)),
                      Dedup(a.names))

parseCondition(conditionData) ==
    LET t == parseTerm(conditionData)
        c == parseCode(conditionData)
        a == parseEntryTerms(conditionData)
    IN  IF ~t.ok THEN Failed("term")
        ELSE IF ~c.ok THEN Failed("code")
        ELSE IF ~a.ok THEN Failed("entry_terms")
        ELSE Returned(t.term, c.code, a.names)

(***************************************************************************)
(* dict: a sequence of items with distinct keys, in insertion order        *)
(***************************************************************************)
HasKey(d, k) == \E i \in 1..Len(d) : d[i].term = k

IndexOf(d, k) == CHOOSE i \in 1..Len(d) : d[i].term = k

\* setdefault-like: the first value is kept
DictSetKeepFirst(d, k, v) ==
    IF HasKey(d, k) THEN d ELSE Append(d, [term |-> k, rep |-> v])

\* delete-then-insert: the key moves to the end
DictSetMoveToEnd(d, k, v) ==
    Append(SelectSeq(d, LAMBDA it : it.term # k), [term |-> k, rep |-> v])

\* d[k] = v
DictSet(d, k, v) ==
    IF HasKey(d, k)
    THEN [d EXCEPT ![IndexOf(d, k)] = [term |-> k, rep |-> v]]
    ELSE Append(d, [term |-> k, rep |-> v])

\* d[k]
DictGet(d, k) == d[IndexOf(d, k)].rep

(***************************************************************************)
(* json.dump / json.loads: the members of the top-level object, in order   *)
(***************************************************************************)
NotWritten == [written |-> FALSE, members |-> <<>>]

JsonDump(d) ==
    [written |-> TRUE,
     members |-> [i \in 1..Len(d) |-> <<d[i].term, d[i].rep>>]]

RECURSIVE JsonLoadMembers(_, _)
JsonLoadMembers(members, d) ==
    IF members = <<>> THEN d
    ELSE JsonLoadMembers(Tail(members),
                         DictSet(d, Head(members)[1], Head(members)[2]))

JsonLoads(f) == JsonLoadMembers(f.members, <<>>)

(***************************************************************************)
(* Input documents                                                         *)
(***************************************************************************)
sFl == <<70, 108>>
sfL == <<102, 76>>
sfl == <<102, 108>>
sAb == <<65, 98>>
sab == <<97, 98>>
sIn == <<73, 110>>
sin == <<105, 110>>
sGr == <<71, 114>>
sgr == <<103, 114>>
sC1 == <<67, 49>>
sC2 == <<67, 50>>
sD1 == <<68, 49>>
sc1 == <<99, 49>>

StringEl(text) == Element("String", text, <<>>)

DescriptorName(text) == Element("DescriptorName", None, <<StringEl(text)>>)

TreeNumberList(texts) ==
    Element("TreeNumberList", None,
            [i \in 1..Len(texts) |-> Element("TreeNumber", texts[i], <<>>)])

Term(text) == Element("Term", None, <<StringEl(text)>>)

Concept(texts) ==
    Element("Concept", None,
            <<Element("TermList", None, [i \in 1..Len(texts) |-> Term(texts[i])])>>)

ConceptList(concepts) == Element("ConceptList", None, concepts)

DescriptorRecord(children) == Element("DescriptorRecord", None, children)

\* well-formed descriptors
WellFormedEntries ==
    { DescriptorRecord(<<DescriptorName(Str(sFl)), TreeNumberList(<<Str(sC1)>>),
                         ConceptList(<<Concept(<<Str(sIn), Str(sGr)>>)>>)>>),
      DescriptorRecord(<<DescriptorName(Str(sfL)), TreeNumberList(<<Str(sC2), Str(sD1)>>),
                         ConceptList(<<Concept(<<Str(sGr)>>),
                                       Concept(<<Str(sGr), Str(sFl)>>)>>)>>),
      DescriptorRecord(<<DescriptorName(Str(sAb)), TreeNumberList(<<Str(sC1)>>),
                         ConceptList(<<>>)>>),
      DescriptorRecord(<<DescriptorName(Str(sIn)), TreeNumberList(<<Str(sC2)>>),
                         ConceptList(<<Concept(<<>>), Concept(<<Str(sAb)>>)>>)>>),
      DescriptorRecord(<<DescriptorName(Str(sAb)), TreeNumberList(<<Str(sD1)>>),
                         ConceptList(<<Concept(<<Str(sIn)>>)>>)>>),
      DescriptorRecord(<<DescriptorName(Str(sGr)), TreeNumberList(<<Str(sc1)>>),
                         ConceptList(<<Concept(<<Str(sFl)>>)>>)>>),
      DescriptorRecord(<<DescriptorName(Str(sGr)), TreeNumberList(<<Str(sD1), Str(sC1)>>),
                         ConceptList(<<Concept(<<Str(sFl)>>)>>)>>) }

\* descriptors whose TreeNumberList / TreeNumber / text is missing
NoCodeEntries ==
    { DescriptorRecord(<<DescriptorName(Str(sGr)),
                         ConceptList(<<Concept(<<Str(sIn)>>)>>)>>),
      DescriptorRecord(<<DescriptorName(Str(sGr)), TreeNumberList(<<>>),
                         ConceptList(<<Concept(<<Str(sIn)>>)>>)>>),
      DescriptorRecord(<<DescriptorName(Str(sGr)), TreeNumberList(<<None, Str(sC1)>>),
                         ConceptList(<<Concept(<<Str(sIn)>>)>>)>>) }

\* condition descriptors whose name or entry-term path is missing
BrokenConditionEntries ==
    { DescriptorRecord(<<TreeNumberList(<<Str(sC1)>>),
                         ConceptList(<<Concept(<<Str(sIn)>>)>>)>>),
      DescriptorRecord(<<DescriptorName(None), TreeNumberList(<<Str(sC1)>>),
                         ConceptList(<<Concept(<<Str(sIn)>>)>>)>>),
      DescriptorRecord(<<DescriptorName(Str(sGr)), TreeNumberList(<<Str(sC1)>>)>>),
      DescriptorRecord(<<DescriptorName(Str(sGr)), TreeNumberList(<<Str(sC1)>>),
                         ConceptList(<<Concept(<<Str(sIn)>>),
                                       Element("Concept", None, <<>>)>>)>>),
      DescriptorRecord(<<DescriptorName(Str(sGr)), TreeNumberList(<<Str(sC1)>>),
                         ConceptList(<<Concept(<<Str(sIn), None>>)>>)>>),
      DescriptorRecord(<<DescriptorName(Str(sGr)), TreeNumberList(<<Str(sC1)>>),
                         ConceptList(<<Concept(<<Str(sIn)>>),
                                       Element("Concept", None,
                                               <<Element("TermList", None,
                                                         <<Element("Term", None, <<>>)>>)>>)>>)>>) }

Entries == WellFormedEntries \cup NoCodeEntries \cup BrokenConditionEntries

Documents == UNION { [1..n -> Entries] : n \in 0..MaxEntries }

(***************************************************************************)
(* MeSHParser.main / parseFile                                             *)
(***************************************************************************)
Init ==
    /\ root \in Documents
    /\ pos = 1
    /\ parsedCondition = <<>>
    /\ data = <<>>
    /\ file = NotWritten
    /\ stdout = <<>>
    /\ pc = "loop"
    /\ loaded = <<>>
    /\ ti = 1
    /\ ai = 1
    /\ row = [term |-> None, alias |-> None]
    /\ sink = <<>>
    /\ pc2 = "idle"

\* isCondition(descriptorRecord) is False: next descriptor
SkipEntry ==
    /\ pc = "loop"
    /\ pos <= Len(root)
    /\ isCondition(root[pos]) = "False"
    /\ stdout' = stdout \o isConditionOutput(root[pos])
    /\ pos' = pos + 1
    /\ UNCHANGED <<root, parsedCondition, data, file, pc, expanderVars>>

\* code[0] raises outside the try block: uncaught, the process dies
IsConditionRaises ==
    /\ pc = "loop"
    /\ pos <= Len(root)
    /\ isCondition(root[pos]) = "Raise"
    /\ pc' = "crashed"
    /\ UNCHANGED <<root, pos, parsedCondition, data, file, stdout, expanderVars>>

\* parseCondition prints its diagnostic and calls exit()
CondenseFatal ==
    /\ pc = "loop"
    /\ pos <= Len(root)
    /\ isCondition(root[pos]) = "True"
    /\ ~parseCondition(root[pos]).ok
    /\ stdout' = Append(stdout, ErrorMessage(parseCondition(root[pos]).error))
    /\ pc' = "fatal"
    /\ UNCHANGED <<root, pos, parsedCondition, data, file, expanderVars>>

\* data[parsedCondition[0]] = parsedCondition[1]
InsertRecord ==
    /\ pc = "loop"
    /\ pos <= Len(root)
    /\ isCondition(root[pos]) = "True"
    /\ LET r == parseCondition(root[pos])
       IN  /\ r.ok
           /\ parsedCondition' = <<r.term, r.rep>>
           /\ data' = DictSet(data, r.term, r.rep)
    /\ pos' = pos + 1
    /\ UNCHANGED <<root, file, stdout, pc, expanderVars>>

\* json.dump(data, out) after the loop; main returns
Dump ==
    /\ pc = "loop"
    /\ pos > Len(root)
    /\ file' = JsonDump(data)
    /\ pc' = "exited"
    /\ UNCHANGED <<root, pos, parsedCondition, data, stdout, expanderVars>>

(***************************************************************************)
(* JSONMeSHAliasParser.main / parseFile                                    *)
(***************************************************************************)
\* data[term]["entry_terms"], with a term that has none reported as itself
entryTermsOrSelf(d, term) ==
    IF DictGet(d, term).entry_terms = <<>> THEN <<term>>
    ELSE DictGet(d, term).entry_terms

\* data[term]["entry_terms"]
entryTermsOf(d, term) == DictGet(d, term).entry_terms

\* a writer that drops a row it has already written
writerowOnce(s, r) ==
    IF \E i \in 1..Len(s) : s[i] = [alias |-> r.alias.chars, term |-> r.term.chars]
    THEN s
    ELSE Append(s, [alias |-> r.alias.chars, term |-> r.term.chars])

\* a writer that swaps the two columns
writerowSwapped(s, r) == Append(s, [alias |-> r.term.chars, term |-> r.alias.chars])

\* out.writerow(row), fieldnames = ["alias", "term"]
writerow(s, r) == Append(s, [alias |-> r.alias.chars, term |-> r.term.chars])

\* data = json.loads(rawData)
LoadJson ==
    /\ pc2 = "idle"
    /\ pc = "exited"
    /\ file.written
    /\ loaded' = JsonLoads(file)
    /\ ti' = 1
    /\ pc2' = "terms"
    /\ UNCHANGED <<condenserVars, ai, row, sink>>

\* the first program died before json.dump: the file is empty, json.loads raises
LoadJsonFails ==
    /\ pc2 = "idle"
    /\ pc \in {"fatal", "crashed"}
    /\ ~file.written
    /\ pc2' = "loadError"
    /\ UNCHANGED <<condenserVars, loaded, ti, ai, row, sink>>

\* for term in data: row = {}; row["term"] = term
BeginTerm ==
    /\ pc2 = "terms"
    /\ ti <= Len(loaded)
    /\ row' = [term |-> Str(loaded[ti].term), alias |-> None]
    /\ ai' = 1
    /\ pc2' = "aliases"
    /\ UNCHANGED <<condenserVars, loaded, ti, sink>>

\* for alias in data[term]["entry_terms"]: row["alias"] = alias; out.writerow(row)
WriteRow ==
    /\ pc2 = "aliases"
    /\ ai <= Len(entryTermsOf(loaded, row.term.chars))
    /\ row' = [row EXCEPT !.alias = Str(entryTermsOf(loaded, row.term.chars)[ai])]
    /\ sink' = writerow(sink, row')
    /\ ai' = ai + 1
    /\ UNCHANGED <<condenserVars, loaded, ti, pc2>>

\* the alias loop is exhausted
EndTerm ==
    /\ pc2 = "aliases"
    /\ ai > Len(entryTermsOf(loaded, row.term.chars))
    /\ ti' = ti + 1
    /\ pc2' = "terms"
    /\ UNCHANGED <<condenserVars, loaded, ai, row, sink>>

\* the term loop is exhausted; parseFile returns
Finish ==
    /\ pc2 = "terms"
    /\ ti > Len(loaded)
    /\ pc2' = "done"
    /\ UNCHANGED <<condenserVars, loaded, ti, ai, row, sink>>

Next ==
    \/ SkipEntry
    \/ IsConditionRaises
    \/ CondenseFatal
    \/ InsertRecord
    \/ Dump
    \/ LoadJson
    \/ LoadJsonFails
    \/ BeginTerm
    \/ WriteRow
    \/ EndTerm
    \/ Finish

Spec == Init /\ [][Next]_vars

(***************************************************************************)
(* The Expander alone, on an arbitrary JSON object of records              *)
(***************************************************************************)
JsonKeys == {<<>>, sfl, sab}

JsonAliasLists == {<<>>, <<sfl>>, <<sin, sgr>>, <<sgr, sgr, sfl>>}

JsonMembers ==
    { <<k, [mesh_code |-> Str(sC1), entry_terms |-> a]>> :
        k \in JsonKeys, a \in JsonAliasLists }

JsonFiles ==
    { [written |-> TRUE, members |-> m] :
        m \in UNION { [1..n -> JsonMembers] : n \in 0..MaxRecords } }

InitExpander ==
    /\ root = <<>>
    /\ pos = 1
    /\ parsedCondition = <<>>
    /\ data = <<>>
    /\ file \in JsonFiles
    /\ stdout = <<>>
    /\ pc = "exited"
    /\ loaded = <<>>
    /\ ti = 1
    /\ ai = 1
    /\ row = [term |-> None, alias |-> None]
    /\ sink = <<>>
    /\ pc2 = "idle"

NextExpander ==
    \/ LoadJson
    \/ BeginTerm
    \/ WriteRow
    \/ EndTerm
    \/ Finish

SpecExpander == InitExpander /\ [][NextExpander]_vars

(***************************************************************************)
(* Vocabulary of the properties, stated on the document itself             *)
(***************************************************************************)
\* the entry has a TreeNumberList whose first TreeNumber leaf carries text
HasCodeText(e) ==
    /\ ~find(e, "TreeNumberList").isNone
    /\ ~find(find(e, "TreeNumberList"), "TreeNumber").isNone
    /\ ~find(find(e, "TreeNumberList"), "TreeNumber").text.isNone

CodeText(e) == find(find(e, "TreeNumberList"), "TreeNumber").text

\* the first character of the entry's first code is "C"
HasMarker(e) == HasCodeText(e) /\ CodeText(e).chars # <<>> /\ CodeText(e).chars[1] = 67

HasNameText(e) ==
    /\ ~find(e, "DescriptorName").isNone
    /\ ~find(find(e, "DescriptorName"), "String").isNone
    /\ ~find(find(e, "DescriptorName"), "String").text.isNone

NameText(e) == find(find(e, "DescriptorName"), "String").text.chars

\* t is s with every upper-case ASCII letter replaced by its lower-case letter
IsLowerOf(t, s) ==
    /\ Len(t) = Len(s)
    /\ \A i \in 1..Len(s) :
          IF s[i] \in 65..90 THEN t[i] = s[i] + 32 ELSE t[i] = s[i]

ConceptsOf(e) == findall(find(e, "ConceptList"), "Concept")

TermsOf(concept) == findall(find(concept, "TermList"), "Term")

HasAliasPath(e) ==
    /\ ~find(e, "ConceptList").isNone
    /\ \A g \in 1..Len(ConceptsOf(e)) :
          /\ ~find(ConceptsOf(e)[g], "TermList").isNone
          /\ \A t \in 1..Len(TermsOf(ConceptsOf(e)[g])) :
                /\ ~find(TermsOf(ConceptsOf(e)[g])[t], "String").isNone
                /\ ~find(TermsOf(ConceptsOf(e)[g])[t], "String").text.isNone

\* number of term entries in the concept groups before group g
RECURSIVE TermsBefore(_, _)
TermsBefore(e, g) ==
    IF g <= 1 THEN 0
    ELSE TermsBefore(e, g - 1) + Len(TermsOf(ConceptsOf(e)[g - 1]))

\* a is the flattened, lowercased list of the entry's term texts
IsAliasesOf(a, e) ==
    /\ Len(a) = TermsBefore(e, Len(ConceptsOf(e)) + 1)
    /\ \A g \in 1..Len(ConceptsOf(e)) :
          \A t \in 1..Len(TermsOf(ConceptsOf(e)[g])) :
             IsLowerOf(a[TermsBefore(e, g) + t],
                       find(TermsOf(ConceptsOf(e)[g])[t], "String").text.chars)

\* the Record the entry condenses to
IsRecordOf(rep, e) ==
    /\ rep.mesh_code = CodeText(e)
    /\ IsAliasesOf(rep.entry_terms, e)

\* the two names are equal up to the case of their ASCII letters
SameTerm(e1, e2) ==
    /\ HasNameText(e1) /\ HasNameText(e2)
    /\ Len(NameText(e1)) = Len(NameText(e2))
    /\ \A i \in 1..Len(NameText(e1)) :
          LET a == NameText(e1)[i]
              b == NameText(e2)[i]
          IN  \/ a = b
              \/ a \in 65..90 /\ b = a + 32
              \/ b \in 65..90 /\ a = b + 32

\* the entries before the loop position have been processed
Processed == 1..(pos - 1)

Selected(n) == { i \in 1..n : HasMarker(root[i]) }

HasDuplicate(s) == \E i, j \in 1..Len(s) : i < j /\ s[i] = s[j]

(***************************************************************************)
(* C1: every Record of the mapping (partial after any prefix, and final in *)
(* the output file) comes from a processed entry whose first code starts   *)
(* with "C"; entries without the marker or without a code path add nothing *)
(***************************************************************************)
FromCondition(term, rep) ==
    \E i \in Processed :
       /\ HasMarker(root[i])
       /\ HasNameText(root[i])
       /\ IsLowerOf(term, NameText(root[i]))
       /\ IsRecordOf(rep, root[i])

C1_OnlyConditionsInMapping ==
    /\ \A k \in 1..Len(data) : FromCondition(data[k].term, data[k].rep)
    /\ Len(data) <= Cardinality(Selected(pos - 1))
    /\ \A k \in 1..Len(file.members) :
          FromCondition(file.members[k][1], file.members[k][2])
    /\ Len(file.members) <= Cardinality(Selected(pos - 1))

C1_Witness ==
    /\ file.written
    /\ file.members # <<>>
    /\ \E i \in 1..Len(root) : ~HasCodeText(root[i])
    /\ \E i \in 1..Len(root) : HasCodeText(root[i]) /\ ~HasMarker(root[i])

(***************************************************************************)
(* C2: an entry whose code path is absent or malformed (no TreeNumberList, *)
(* no TreeNumber leaf, or a leaf without text) never stops the run: the    *)
(* loop is never left at such an entry                                     *)
(***************************************************************************)
CodePathMalformed(e) == ~HasCodeText(e) \/ CodeText(e).chars = <<>>

C2_MalformedCodePathIsSkipped ==
    \A i \in 1..Len(root) :
       (CodePathMalformed(root[i]) /\ pos = i) => pc = "loop"

(***************************************************************************)
(* C3: of two selected entries with the same lowercased name, the mapping  *)
(* holds exactly one Record under that term, and it is the Record of the   *)
(* one processed last; the overwrite prints nothing and stops nothing      *)
(***************************************************************************)
IsLastOccurrence(j) ==
    /\ j \in Processed
    /\ HasMarker(root[j])
    /\ \A m \in Processed : (m > j /\ HasMarker(root[m])) => ~SameTerm(root[j], root[m])

\* every line printed is the report of an unreadable code or of the fatal error
OnlyPathDiagnostics ==
    Len(stdout) = Cardinality({i \in Processed : ~HasCodeText(root[i])})
                  + (IF pc = "fatal" THEN 1 ELSE 0)

C3_LastWriteWins ==
    OnlyPathDiagnostics /\
    \A i, j \in Processed :
       (i < j /\ HasMarker(root[i]) /\ SameTerm(root[i], root[j]) /\ IsLastOccurrence(j))
       => /\ Cardinality({k \in 1..Len(data) : IsLowerOf(data[k].term, NameText(root[j]))}) = 1
          /\ \A k \in 1..Len(data) :
                IsLowerOf(data[k].term, NameText(root[j])) => IsRecordOf(data[k].rep, root[j])

C3_Witness ==
    /\ file.written
    /\ \E i, j \in Processed :
          /\ i < j /\ HasMarker(root[i]) /\ HasMarker(root[j])
          /\ SameTerm(root[i], root[j])
          /\ CodeText(root[i]) # CodeText(root[j])
          /\ \E k \in 1..Len(file.members) :
                file.members[k][2].mesh_code = CodeText(root[j])

(***************************************************************************)
(* C4: a selected entry whose name or alias path is absent is fatal: the   *)
(* loop never gets past it, the run ends there in the fatal state, and the *)
(* mapping built so far is never written (so nothing reaches the rows)     *)
(***************************************************************************)
CondensePathMissing(e) == ~HasNameText(e) \/ ~HasCodeText(e) \/ ~HasAliasPath(e)

C4_CondenseFailureIsFatal ==
    /\ \A i \in 1..Len(root) :
          (HasMarker(root[i]) /\ CondensePathMissing(root[i]))
          => /\ pos <= i
             /\ pos = i => pc \in {"loop", "fatal"}
             /\ ~file.written
             /\ loaded = <<>> /\ sink = <<>>
    /\ pc = "fatal" => HasMarker(root[pos]) /\ CondensePathMissing(root[pos])

C4_Witness ==
    /\ pc = "fatal"
    /\ data # <<>>
    /\ pos < Len(root)
    /\ ~HasAliasPath(root[pos])
    /\ pc2 = "loadError"

(***************************************************************************)
(* C5: when the Expander is done, the number of rows written equals the    *)
(* sum of the lengths of the alias lists of the mapping's Records          *)
(***************************************************************************)
RECURSIVE TotalAliases(_)
TotalAliases(d) ==
    IF d = <<>> THEN 0
    ELSE Len(Head(d).rep.entry_terms) + TotalAliases(Tail(d))

C5_RowCount == pc2 = "done" => Len(sink) = TotalAliases(loaded)

C5_Witness ==
    /\ pc2 = "done"
    /\ Len(loaded) >= 2
    /\ Len(sink) >= 4
    /\ HasDuplicate(sink)

(***************************************************************************)
(* C7: the rows written so far are exactly the (alias, term) pairs of the  *)
(* terms before the current one, in mapping order and stored alias order,  *)
(* followed by those of the aliases of the current term already read; a    *)
(* row (t, t) occurs only if t is in t's own alias list                    *)
(***************************************************************************)
RowsOfTerm(item, n) ==
    [m \in 1..n |-> [alias |-> item.rep.entry_terms[m], term |-> item.term]]

RECURSIVE FlatRows(_)
FlatRows(d) ==
    IF d = <<>> THEN <<>>
    ELSE FlatRows(SubSeq(d, 1, Len(d) - 1))
         \o RowsOfTerm(d[Len(d)], Len(d[Len(d)].rep.entry_terms))

C7_RowOrder ==
    /\ pc2 = "idle" => sink = <<>>
    /\ pc2 = "terms" => sink = FlatRows(SubSeq(loaded, 1, ti - 1))
    /\ pc2 = "aliases" =>
          sink = FlatRows(SubSeq(loaded, 1, ti - 1)) \o RowsOfTerm(loaded[ti], ai - 1)
    /\ pc2 = "done" => sink = FlatRows(loaded)
    /\ \A n \in 1..Len(sink) :
          sink[n].alias = sink[n].term
          => \E k \in 1..Len(loaded) :
                /\ loaded[k].term = sink[n].term
                /\ \E m \in 1..Len(loaded[k].rep.entry_terms) :
                      loaded[k].rep.entry_terms[m] = sink[n].term

C7_Witness ==
    /\ pc2 = "aliases"
    /\ ti = 2
    /\ ai = 2
    /\ Len(loaded[2].rep.entry_terms) >= 2
    /\ \E n \in 1..Len(sink) : sink[n].alias = sink[n].term

(***************************************************************************)
(* C8: a Record with an empty alias list produces no row: no row of the    *)
(* output carries its term                                                 *)
(***************************************************************************)
C8_EmptyAliasesNoRows ==
    \A k \in 1..Len(loaded) :
       loaded[k].rep.entry_terms = <<>>
       => \A n \in 1..Len(sink) : sink[n].term # loaded[k].term

C8_Witness ==
    /\ pc2 = "done"
    /\ sink # <<>>
    /\ \E k \in 1..Len(loaded) : loaded[k].rep.entry_terms = <<>>

(***************************************************************************)
(* C6: the Record returned for a selected entry has as aliases the         *)
(* lowercased texts of all terms of all concept groups, flattened in       *)
(* document order with duplicates kept (none for an empty concept list),   *)
(* and as code the text of the first code leaf, case untouched             *)
(***************************************************************************)
C6_CondensedRecord ==
    (pos > 1 /\ HasMarker(root[pos - 1]))
    => /\ Len(parsedCondition) = 2
       /\ IsLowerOf(parsedCondition[1], NameText(root[pos - 1]))
       /\ parsedCondition[2].mesh_code = CodeText(root[pos - 1])
       /\ IsAliasesOf(parsedCondition[2].entry_terms, root[pos - 1])

C6_Witness ==
    /\ pos > 1
    /\ HasMarker(root[pos - 1])
    /\ Len(ConceptsOf(root[pos - 1])) = 2
    /\ Len(parsedCondition[2].entry_terms) = 3
    /\ HasDuplicate(parsedCondition[2].entry_terms)
    /\ \E k \in 1..Len(data) : data[k].rep.entry_terms = <<>>

(***************************************************************************)
(* C9: after any prefix of the entries, every Record of the mapping is     *)
(* keyed by a non-empty term, and no processed selected entry lacks a      *)
(* name text                                                               *)
(***************************************************************************)
C9_NonEmptyTerm ==
    /\ \A k \in 1..Len(data) : data[k].term # <<>>
    /\ \A k \in 1..Len(file.members) : file.members[k][1] # <<>>
    /\ \A i \in Processed :
          HasMarker(root[i]) => HasNameText(root[i]) /\ NameText(root[i]) # <<>>
    /\ \A i \in 1..Len(root) :
          (HasMarker(root[i]) /\ ~HasNameText(root[i])) => pos <= i

C9_Witness ==
    /\ pc = "fatal"
    /\ data # <<>>
    /\ ~HasNameText(root[pos])

(***************************************************************************)
(* C10: a term shared by several selected entries stays at the position of *)
(* its first occurrence in the mapping while its Record is that of its     *)
(* last occurrence; the rows of the pipeline follow that order and carry   *)
(* the aliases of the last occurrence only                                 *)
(***************************************************************************)
IsFirstOccurrence(i) ==
    /\ i \in Processed
    /\ HasMarker(root[i])
    /\ \A m \in Processed : (m < i /\ HasMarker(root[m])) => ~SameTerm(root[i], root[m])

\* the k-th first occurrence among the processed entries
RECURSIVE NthFirstOccurrence(_, _)
NthFirstOccurrence(k, from) ==
    IF IsFirstOccurrence(from)
    THEN IF k = 1 THEN from ELSE NthFirstOccurrence(k - 1, from + 1)
    ELSE NthFirstOccurrence(k, from + 1)

MappingKeepsFirstPositionLastRecord(d) ==
    /\ Len(d) = Cardinality({i \in Processed : IsFirstOccurrence(i)})
    /\ \A k \in 1..Len(d) :
          /\ IsLowerOf(d[k].term, NameText(root[NthFirstOccurrence(k, 1)]))
          /\ \E j \in Processed :
                /\ IsLastOccurrence(j)
                /\ SameTerm(root[j], root[NthFirstOccurrence(k, 1)])
                /\ IsRecordOf(d[k].rep, root[j])

C10_FirstPositionLastRecord ==
    /\ MappingKeepsFirstPositionLastRecord(data)
    /\ pc2 \in {"terms", "aliases", "done"} => MappingKeepsFirstPositionLastRecord(loaded)
    /\ pc2 = "done" => sink = FlatRows(loaded)
    /\ \A n \in 1..Len(sink) :
          \E j \in Processed :
             /\ IsLastOccurrence(j)
             /\ IsLowerOf(sink[n].term, NameText(root[j]))
             /\ \E a \in {loaded[k].rep.entry_terms : k \in 1..Len(loaded)} :
                   /\ IsAliasesOf(a, root[j])
                   /\ \E m \in 1..Len(a) : a[m] = sink[n].alias

C10_Witness ==
    /\ pc2 = "done"
    /\ Len(root) = 3
    /\ HasMarker(root[1]) /\ HasMarker(root[2]) /\ HasMarker(root[3])
    /\ SameTerm(root[1], root[3])
    /\ ~SameTerm(root[1], root[2])
    /\ Len(sink) = 4
    /\ sink[1].term = sink[3].term
    /\ sink[4].term # sink[1].term
    /\ Len(ConceptsOf(root[1])) >= 1
    /\ \E m \in 1..Len(TermsOf(ConceptsOf(root[1])[1])) :
          \A n \in 1..Len(sink) :
             ~IsLowerOf(sink[n].alias,
                        find(TermsOf(ConceptsOf(root[1])[1])[m], "String").text.chars)
====
